---- MODULE Spec2Model ----
(***************************************************************************)
(* A model of nlmod's groundwater-transport example pipeline               *)
(* (docs/examples/16_groundwater_transport.ipynb) and of the CI workflow   *)
(* that tests the package.                                                 *)
(*                                                                         *)
(* Four specifications share the module:                                  *)
(*   Spec     the notebook run top to bottom: the model dataset, the       *)
(*            simulation, the flow model, the transport model, the run     *)
(*            and the reading of the results;                              *)
(*   SpecTop  the cell-wise computation of the new model top;              *)
(*   SpecBC   the boundary conditions built from the sea coverage;         *)
(*   SpecCI   one run of the CI workflow: the trigger and the job's steps. *)
(* Where a definition gives an nlmod function the notebook calls a         *)
(* meaning, it follows the notebook's documentation of that function.      *)
(***************************************************************************)
EXTENDS Integers, Sequences, FiniteSets, TLC

VARIABLES
    pc,               \* index in Steps of the next notebook step
    transport,        \* the setting `transport` of the settings cell
    ds,               \* the model dataset: attribute/variable name -> value
    ssm_sources,      \* ds.ssm_sources, a set of package names
    sim_ims,          \* the IMS packages of the simulation, in creation order
    ims_var,          \* the package the python variable `ims` refers to
    sim_models,       \* the models of the simulation
    solution_groups,  \* the pairs <<ims package, model>> the simulation solves
    packages,         \* the pairs <<model, package>> built so far
    pkg_args,         \* transport package -> [passed, used]
    ran,              \* write_and_run has completed
    outputs,          \* the results read back
    ahn,              \* ds["ahn"], cell -> value
    vaklodingen,      \* ds["vaklodingen"], cell -> value
    new_top,          \* the new model top, cell -> value
    top_pc,           \* position in the new-top cell
    sea,              \* ds["sea"], cell -> part of the cell covered by sea
    ghb_cond,         \* the conductance passed to the GHB package, per cell
    drn_cells,        \* the cells that got a surface drain
    rch_cells,        \* the cells that got recharge
    bc_pc,            \* position in the boundary-condition cells
    ci_event,         \* the event that reached the repository
    ci_branch,        \* the branch of that event
    ci_status,        \* idle | not_triggered | running | completed
    ci_results        \* the outcome of each step of the job so far

vars == <<pc, transport, ds, ssm_sources, sim_ims, ims_var, sim_models,
          solution_groups, packages, pkg_args, ran, outputs,
          ahn, vaklodingen, new_top, top_pc,
          sea, ghb_cond, drn_cells, rch_cells, bc_pc,
          ci_event, ci_branch, ci_status, ci_results>>

nbVars == <<pc, transport, ds, ssm_sources, sim_ims, ims_var, sim_models,
            solution_groups, packages, pkg_args, ran, outputs>>

topVars == <<ahn, vaklodingen, new_top, top_pc>>

bcVars == <<sea, ghb_cond, drn_cells, rch_cells, bc_pc>>

ciVars == <<ci_event, ci_branch, ci_status, ci_results>>

(***************************************************************************)
(* Bounds of the model.                                                    *)
(***************************************************************************)
\* the values a transport parameter stored in the dataset can take
MaxParam == 2
\* the number of cells of the model grid
NCells == 2
\* surface levels range over 0..MaxElev
MaxElev == 1
\* the sea coverage of a cell is counted in parts 0..MaxSea of the cell
MaxSea == 2

(***************************************************************************)
(* Optional keyword arguments: None, or a value.                           *)
(***************************************************************************)
None == {}

Some(v) == {v}

ValueOf(opt) == CHOOSE v \in opt : TRUE

EmptyFcn == [x \in {} |-> 0]

(***************************************************************************)
(* The notebook, top to bottom.                                            *)
(***************************************************************************)
\* the notebook with write_and_run moved before the transport cell
StepsRunBeforeTransport ==
    << "to_model_ds", "set_defaults", "surface", "chloride",
       "sim", "gwf", "ghb", "drn", "rch", "write_and_run",
       "buy", "gwt", "ims_gwt", "register_ims", "gwt_dis_ic",
       "adv", "dsp", "mst", "ssm", "oc_gwt", "gwfgwt",
       "read_outputs" >>

\* the order of the notebook's steps
Steps ==
    << "to_model_ds", "set_defaults", "surface", "chloride",
       "sim", "gwf", "ghb", "drn", "rch",
       "buy", "gwt", "ims_gwt", "register_ims", "gwt_dis_ic",
       "adv", "dsp", "mst", "ssm", "oc_gwt", "gwfgwt",
       "write_and_run", "read_outputs" >>

IndexOf(name) == CHOOSE i \in 1..Len(Steps) : Steps[i] = name

At(name) == pc \in 1..Len(Steps) /\ Steps[pc] = name

\* the transport parameters set_default_transport_parameters stores in ds
ParamVars == {"adv", "dsp", "mst"}

ParamValues == 1..MaxParam

\* the packages of the flow model the notebook builds before the run
GwfPackages == {"dis", "npf", "sto", "ic", "oc", "ghb", "drn", "rch"}

\* the packages of the transport model the notebook builds before the run
GwtPackages == {"dis", "ic", "adv", "dsp", "mst", "ssm", "oc"}

\* nlmod.to_model_ds(..., transport=transport): the setting becomes the
\* dataset attribute ds.transport, 1 when True
ToModelDsAttrs(t) == "transport" :> (IF t THEN 1 ELSE 0)

\* `if ds.transport == 1:` before set_default_transport_parameters
DefaultsGate == ds["transport"] = 1

\* the transport cell without its `if ds.transport:`
TransportGateAlways == TRUE

\* `if ds.transport:` before the transport model is built
TransportGate == ds["transport"] # 0

\* nlmod.gwf.ghb called without the auxiliary keyword
GhbAuxiliaryOmitted == None

\* the auxiliary keyword the notebook passes to nlmod.gwf.ghb
GhbAuxiliary == Some(18000)

\* nlmod.gwf.ghb registers the package as a source of the transport model
\* when an auxiliary variable is given and ds.transport is 1
GhbSsmSources(aux, srcs) ==
    IF aux # None /\ ds["transport"] = 1 THEN srcs \cup {"ghb"} ELSE srcs

\* a constructor that reads the dataset whatever is passed to it
GetValueFromDsOnly(passed, stored) == stored

\* a package constructor's parameter: the value passed to it, and the
\* value stored in the dataset when none is passed
GetValueFromDs(passed, stored) ==
    IF passed # None THEN ValueOf(passed) ELSE stored

\* a model created in the simulation is solved by the simulation's first
\* IMS package, when there is one
RegisterModel(groups, ims, model) ==
    IF Len(ims) > 0 THEN groups \cup {<<ims[1], model>>} ELSE groups

\* register_ims_package(sim, model, ims): the model is solved by this IMS
\* package and by no other
RegisterImsPackage(groups, model, ims) ==
    {g \in groups : g[2] # model} \cup {<<ims, model>>}

\* register_ims_package called with the flow model
RegisteredModelGwf == "gwf"

\* the model the notebook registers with the second IMS package
RegisteredModel == "gwt"

\* the values the keyword arguments of the ADV, DSP and MST constructors take
PassedChoices == {None} \cup {Some(v) : v \in ParamValues}

\* the values the sources argument of the SSM constructor takes
SsmPassedChoices == {None} \cup {Some(s) : s \in SUBSET {"ghb"}}

NbInit ==
    /\ pc = 1
    /\ ds = EmptyFcn
    /\ ssm_sources = {}
    /\ sim_ims = << >>
    /\ ims_var = "none"
    /\ sim_models = {}
    /\ solution_groups = {}
    /\ packages = {}
    /\ pkg_args = EmptyFcn
    /\ ran = FALSE
    /\ outputs = {}

\* lines 130-146: the model dataset and its time discretisation
ToModelDs ==
    /\ At("to_model_ds")
    /\ ds' = ToModelDsAttrs(transport)
    /\ pc' = pc + 1
    /\ UNCHANGED <<topVars, bcVars, ciVars, transport,
                   ssm_sources, sim_ims, ims_var, sim_models,
                   solution_groups, packages, pkg_args, ran, outputs>>

\* lines 148-151: the default transport parameters, when ds.transport == 1
SetDefaultTransportParameters ==
    /\ At("set_defaults")
    /\ \E p \in [ParamVars -> ParamValues] :
          ds' = IF DefaultsGate THEN ds @@ p ELSE ds
    /\ pc' = pc + 1
    /\ UNCHANGED <<topVars, bcVars, ciVars, transport,
                   ssm_sources, sim_ims, ims_var, sim_models,
                   solution_groups, packages, pkg_args, ran, outputs>>

\* lines 160-205: surface level, new model top and sea coverage
Surface ==
    /\ At("surface")
    /\ pc' = pc + 1
    /\ UNCHANGED <<topVars, bcVars, ciVars, transport,
                   ds, ssm_sources, sim_ims, ims_var, sim_models,
                   solution_groups, packages, pkg_args, ran, outputs>>

\* lines 227-268: the chloride concentration of the model cells
Chloride ==
    /\ At("chloride")
    /\ pc' = pc + 1
    /\ UNCHANGED <<topVars, bcVars, ciVars, transport,
                   ds, ssm_sources, sim_ims, ims_var, sim_models,
                   solution_groups, packages, pkg_args, ran, outputs>>

\* lines 284-291: the simulation, its time discretisation and its IMS
Sim ==
    /\ At("sim")
    /\ sim_ims' = Append(sim_ims, "ims")
    /\ ims_var' = "ims"
    /\ packages' = packages \cup {<<"sim", "tdis">>}
    /\ pc' = pc + 1
    /\ UNCHANGED <<topVars, bcVars, ciVars, transport,
                   ds, ssm_sources, sim_models, solution_groups,
                   pkg_args, ran, outputs>>

\* lines 307-323: the flow model and its dis, npf, sto, ic and oc packages
Gwf ==
    /\ At("gwf")
    /\ sim_models' = sim_models \cup {"gwf"}
    /\ solution_groups' = RegisterModel(solution_groups, sim_ims, "gwf")
    /\ packages' = packages \cup
                     {<<"gwf", p>> : p \in {"dis", "npf", "sto", "ic", "oc"}}
    /\ pc' = pc + 1
    /\ UNCHANGED <<topVars, bcVars, ciVars, transport,
                   ds, ssm_sources, sim_ims, ims_var, pkg_args,
                   ran, outputs>>

\* lines 349-356: the general head boundary of the North Sea
Ghb ==
    /\ At("ghb")
    /\ packages' = packages \cup {<<"gwf", "ghb">>}
    /\ ssm_sources' = GhbSsmSources(GhbAuxiliary, ssm_sources)
    /\ pc' = pc + 1
    /\ UNCHANGED <<topVars, bcVars, ciVars, transport,
                   ds, sim_ims, ims_var, sim_models,
                   solution_groups, pkg_args, ran, outputs>>

\* lines 382-384: the surface level drains
Drn ==
    /\ At("drn")
    /\ packages' = packages \cup {<<"gwf", "drn">>}
    /\ pc' = pc + 1
    /\ UNCHANGED <<topVars, bcVars, ciVars, transport,
                   ds, ssm_sources, sim_ims, ims_var, sim_models,
                   solution_groups, pkg_args, ran, outputs>>

\* lines 400-406: the recharge
Rch ==
    /\ At("rch")
    /\ packages' = packages \cup {<<"gwf", "rch">>}
    /\ pc' = pc + 1
    /\ UNCHANGED <<topVars, bcVars, ciVars, transport,
                   ds, ssm_sources, sim_ims, ims_var, sim_models,
                   solution_groups, pkg_args, ran, outputs>>

\* lines 434-436: the buoyancy package of the flow model, if ds.transport
Buy ==
    /\ At("buy")
    /\ TransportGate
    /\ packages' = packages \cup {<<"gwf", "buy">>}
    /\ pc' = pc + 1
    /\ UNCHANGED <<topVars, bcVars, ciVars, transport,
                   ds, ssm_sources, sim_ims, ims_var, sim_models,
                   solution_groups, pkg_args, ran, outputs>>

\* line 434: with ds.transport off the whole transport cell is skipped
SkipTransport ==
    /\ At("buy")
    /\ ~TransportGate
    /\ pc' = IndexOf("gwfgwt") + 1
    /\ UNCHANGED <<topVars, bcVars, ciVars, transport,
                   ds, ssm_sources, sim_ims, ims_var, sim_models,
                   solution_groups, packages, pkg_args, ran, outputs>>

\* lines 438-439: the transport model
Gwt ==
    /\ At("gwt")
    /\ sim_models' = sim_models \cup {"gwt"}
    /\ solution_groups' = RegisterModel(solution_groups, sim_ims, "gwt")
    /\ pc' = pc + 1
    /\ UNCHANGED <<topVars, bcVars, ciVars, transport,
                   ds, ssm_sources, sim_ims, ims_var, packages,
                   pkg_args, ran, outputs>>

\* lines 441-442: the IMS package of the transport model
ImsGwt ==
    /\ At("ims_gwt")
    /\ sim_ims' = Append(sim_ims, "ims_gwt")
    /\ ims_var' = "ims_gwt"
    /\ pc' = pc + 1
    /\ UNCHANGED <<topVars, bcVars, ciVars, transport,
                   ds, ssm_sources, sim_models, solution_groups,
                   packages, pkg_args, ran, outputs>>

\* line 443: register_ims_package(sim, gwt, ims)
RegisterIms ==
    /\ At("register_ims")
    /\ solution_groups' =
          RegisterImsPackage(solution_groups, RegisteredModel, ims_var)
    /\ pc' = pc + 1
    /\ UNCHANGED <<topVars, bcVars, ciVars, transport,
                   ds, ssm_sources, sim_ims, ims_var, sim_models,
                   packages, pkg_args, ran, outputs>>

\* lines 445-449: the dis and ic packages of the transport model
GwtDisIc ==
    /\ At("gwt_dis_ic")
    /\ packages' = packages \cup {<<"gwt", "dis">>, <<"gwt", "ic">>}
    /\ pc' = pc + 1
    /\ UNCHANGED <<topVars, bcVars, ciVars, transport,
                   ds, ssm_sources, sim_ims, ims_var, sim_models,
                   solution_groups, pkg_args, ran, outputs>>

\* a constructor of the transport model that reads one parameter
Construct(step, passed, stored) ==
    /\ At(step)
    /\ packages' = packages \cup {<<"gwt", step>>}
    /\ pkg_args' = pkg_args @@
          (step :> [passed |-> passed,
                    used |-> GetValueFromDs(passed, stored)])
    /\ pc' = pc + 1
    /\ UNCHANGED <<topVars, bcVars, ciVars, transport,
                   ds, ssm_sources, sim_ims, ims_var, sim_models,
                   solution_groups, ran, outputs>>

\* lines 451-452: the advection package
Adv == \E passed \in PassedChoices : Construct("adv", passed, ds["adv"])

\* lines 454-455: the dispersion package
Dsp == \E passed \in PassedChoices : Construct("dsp", passed, ds["dsp"])

\* lines 457-458: the mass storage and transfer package
Mst == \E passed \in PassedChoices : Construct("mst", passed, ds["mst"])

\* lines 460-461: the source-sink mixing package
Ssm == \E passed \in SsmPassedChoices : Construct("ssm", passed, ssm_sources)

\* lines 463-464: the output control of the transport model
OcGwt ==
    /\ At("oc_gwt")
    /\ packages' = packages \cup {<<"gwt", "oc">>}
    /\ pc' = pc + 1
    /\ UNCHANGED <<topVars, bcVars, ciVars, transport,
                   ds, ssm_sources, sim_ims, ims_var, sim_models,
                   solution_groups, pkg_args, ran, outputs>>

\* lines 466-467: the exchange between the flow and the transport model
GwfGwt ==
    /\ At("gwfgwt")
    /\ packages' = packages \cup {<<"sim", "gwfgwt">>}
    /\ pc' = pc + 1
    /\ UNCHANGED <<topVars, bcVars, ciVars, transport,
                   ds, ssm_sources, sim_ims, ims_var, sim_models,
                   solution_groups, pkg_args, ran, outputs>>

\* line 483: write the model files and run the simulation
WriteAndRun ==
    /\ At("write_and_run")
    /\ ran' = TRUE
    /\ pc' = pc + 1
    /\ UNCHANGED <<topVars, bcVars, ciVars, transport,
                   ds, ssm_sources, sim_ims, ims_var, sim_models,
                   solution_groups, packages, pkg_args, outputs>>

\* lines 525-526: read the calculated heads and concentrations
ReadOutputs ==
    /\ At("read_outputs")
    /\ outputs' = outputs \cup {"get_heads_da", "get_concentration_da"}
    /\ pc' = pc + 1
    /\ UNCHANGED <<topVars, bcVars, ciVars, transport,
                   ds, ssm_sources, sim_ims, ims_var, sim_models,
                   solution_groups, packages, pkg_args, ran>>

Next ==
    \/ ToModelDs
    \/ SetDefaultTransportParameters
    \/ Surface
    \/ Chloride
    \/ Sim
    \/ Gwf
    \/ Ghb
    \/ Drn
    \/ Rch
    \/ Buy
    \/ SkipTransport
    \/ Gwt
    \/ ImsGwt
    \/ RegisterIms
    \/ GwtDisIc
    \/ Adv
    \/ Dsp
    \/ Mst
    \/ Ssm
    \/ OcGwt
    \/ GwfGwt
    \/ WriteAndRun
    \/ ReadOutputs

(***************************************************************************)
(* The new model top, cell by cell.                                        *)
(***************************************************************************)
Cells == 1..NCells

\* a cell without data
NaN == -1

GridValues == {NaN} \cup 0..MaxElev

\* DataArray.isnull()
IsNull(v) == v = NaN

\* DataArray.where(cond, other): the value where cond holds, else other
Where(v, cond, other) == IF cond THEN v ELSE other

\* the condition of where() without its negation
NewTopNotNegated(a, v) == [c \in Cells |-> Where(a[c], IsNull(a[c]), v[c])]

\* line 193: ds["ahn"].where(~ds["ahn"].isnull(), ds["vaklodingen"])
NewTop(a, v) == [c \in Cells |-> Where(a[c], ~IsNull(a[c]), v[c])]

TopInit ==
    /\ top_pc = "grids"
    /\ new_top = [c \in Cells |-> NaN]

\* lines 192-194: the new top from ahn and vaklodingen
SetModelTop ==
    /\ top_pc = "grids"
    /\ new_top' = NewTop(ahn, vaklodingen)
    /\ top_pc' = "top_set"
    /\ UNCHANGED <<ahn, vaklodingen, nbVars, bcVars, ciVars>>

(***************************************************************************)
(* The boundary conditions built from the sea coverage.                    *)
(***************************************************************************)
\* line 69: the cell size along a row
Delr == 100

\* line 70: the cell size along a column
Delc == 100

\* ds["area"], the area of a cell of the structured grid
Area == Delr * Delc

\* the part of a cell covered by sea, in parts of MaxSea: 0 is a cell
\* without sea, MaxSea a cell fully covered
SeaValues == 0..MaxSea

\* line 354: cond=ds["sea"] * ds["area"] / 1.0
GhbCond(s) == [c \in Cells |-> (s[c] * Area) \div 1]

\* the drain elevation without its restriction to sea == 0
DrnElevUnmasked(a, s) == a

\* line 383: elev = ds["ahn"].where(ds["sea"] == 0)
DrnElev(a, s) == [c \in Cells |-> Where(a[c], s[c] = 0, NaN)]

\* line 406: mask=ds["sea"] == 0
RchMask(s) == [c \in Cells |-> s[c] = 0]

\* surface_drain_from_ds: a drain in every cell that has an elevation
DrainCells(elev) == {c \in Cells : ~IsNull(elev[c])}

\* nlmod.gwf.rch: recharge in every cell of the mask
RechargeCells(mask) == {c \in Cells : mask[c]}

BcInit ==
    /\ bc_pc = "ghb"
    /\ ghb_cond = [c \in Cells |-> 0]
    /\ drn_cells = {}
    /\ rch_cells = {}

\* lines 349-356: the conductance of the general head boundary
BuildGhb ==
    /\ bc_pc = "ghb"
    /\ ghb_cond' = GhbCond(sea)
    /\ bc_pc' = "drn"
    /\ UNCHANGED <<sea, drn_cells, rch_cells, nbVars, topVars, ciVars>>

\* lines 382-384: the surface drains at the elevation of ahn
BuildDrn ==
    /\ bc_pc = "drn"
    /\ drn_cells' = DrainCells(DrnElev(ahn, sea))
    /\ bc_pc' = "rch"
    /\ UNCHANGED <<sea, ghb_cond, rch_cells, nbVars, topVars, ciVars>>

\* lines 405-406: the recharge
BuildRch ==
    /\ bc_pc = "rch"
    /\ rch_cells' = RechargeCells(RchMask(sea))
    /\ bc_pc' = "done"
    /\ UNCHANGED <<sea, ghb_cond, drn_cells, nbVars, topVars, ciVars>>

(***************************************************************************)
(* The CI workflow.                                                        *)
(***************************************************************************)
Events == {"push", "pull_request"}

Branches == {"main", "dev", "feature"}

\* on.push.branches
PushBranches == {"main", "dev"}

\* on.pull_request.branches
PullRequestBranches == {"main", "dev"}

\* on: whether an event on a branch starts the workflow
Triggers(e, b) ==
    \/ e = "push" /\ b \in PushBranches
    \/ e = "pull_request" /\ b \in PullRequestBranches

\* jobs.build.steps, in the listed order
CISteps ==
    << "checkout", "setup-python", "install", "download", "tests", "codacy" >>

\* steps that carry `if: always()`
StepRunsAlways(i, results) == TRUE

\* no step has an `if:` or `continue-on-error:` key: a step runs when every
\* earlier step succeeded
StepRuns(i, results) == \A j \in 1..(i - 1) : results[j] = "success"

CIInit ==
    /\ ci_event = "none"
    /\ ci_branch = "none"
    /\ ci_status = "idle"
    /\ ci_results = << >>

\* an event reaches the repository
Event(e, b) ==
    /\ ci_status = "idle"
    /\ ci_event' = e
    /\ ci_branch' = b
    /\ ci_status' = IF Triggers(e, b) THEN "running" ELSE "not_triggered"
    /\ UNCHANGED <<ci_results, nbVars, topVars, bcVars>>

\* the next step of the job: it runs and succeeds or fails, or is skipped
RunStep(outcome) ==
    /\ ci_status = "running"
    /\ LET i == Len(ci_results) + 1
           r == IF StepRuns(i, ci_results) THEN outcome ELSE "skipped"
       IN  /\ ci_results' = Append(ci_results, r)
           /\ ci_status' = IF i = Len(CISteps) THEN "completed" ELSE "running"
    /\ UNCHANGED <<ci_event, ci_branch, nbVars, topVars, bcVars>>

NextCI ==
    \/ \E e \in Events, b \in Branches : Event(e, b)
    \/ \E o \in {"success", "failure"} : RunStep(o)

(***************************************************************************)
(* The specifications.                                                     *)
(***************************************************************************)
\* the notebook; the settings cell leaves `transport` to the modeller
Init ==
    /\ transport \in BOOLEAN
    /\ NbInit
    /\ ahn = [c \in Cells |-> NaN]
    /\ vaklodingen = [c \in Cells |-> NaN]
    /\ TopInit
    /\ sea = [c \in Cells |-> 0]
    /\ BcInit
    /\ CIInit

Spec == Init /\ [][Next]_vars

\* the new model top over every pair of grids
InitTop ==
    /\ transport = TRUE
    /\ NbInit
    /\ ahn \in [Cells -> GridValues]
    /\ vaklodingen \in [Cells -> GridValues]
    /\ TopInit
    /\ sea = [c \in Cells |-> 0]
    /\ BcInit
    /\ CIInit

NextTop == SetModelTop

SpecTop == InitTop /\ [][NextTop]_vars

\* the CI workflow on every event
InitCI ==
    /\ transport = TRUE
    /\ NbInit
    /\ ahn = [c \in Cells |-> NaN]
    /\ vaklodingen = [c \in Cells |-> NaN]
    /\ TopInit
    /\ sea = [c \in Cells |-> 0]
    /\ BcInit
    /\ CIInit

SpecCI == InitCI /\ [][NextCI]_vars

\* the boundary conditions over every surface level and sea coverage
InitBC ==
    /\ transport = TRUE
    /\ NbInit
    /\ ahn \in [Cells -> GridValues]
    /\ vaklodingen = [c \in Cells |-> NaN]
    /\ TopInit
    /\ sea \in [Cells -> SeaValues]
    /\ BcInit
    /\ CIInit

NextBC ==
    \/ BuildGhb
    \/ BuildDrn
    \/ BuildRch

SpecBC == InitBC /\ [][NextBC]_vars

(***************************************************************************)
(* The claims.                                                             *)
(***************************************************************************)
Range(seq) == {seq[i] : i \in DOMAIN seq}

Built(model, pkgs) == {<<model, p>> : p \in pkgs} \subseteq packages

StepIndex(name) == CHOOSE i \in 1..Len(CISteps) : CISteps[i] = name

\* C1: once the notebook has built the GHB package (with an auxiliary
\* variable) on a dataset whose transport attribute is 1, ds.ssm_sources
\* contains the GHB package, and the SSM package later built from the
\* dataset has the GHB package among its sources.
C1_GhbRegisteredInSsmSources ==
    (<<"gwf", "ghb">> \in packages /\ ds["transport"] = 1) =>
        /\ "ghb" \in ssm_sources
        /\ ("ssm" \in DOMAIN pkg_args /\ pkg_args["ssm"].passed = None)
              => "ghb" \in pkg_args["ssm"].used

C1_Witness ==
    /\ <<"gwf", "ghb">> \in packages
    /\ ds["transport"] = 1
    /\ "ghb" \in ssm_sources
    /\ "ssm" \in DOMAIN pkg_args
    /\ pkg_args["ssm"].passed = None
    /\ "ghb" \in pkg_args["ssm"].used

\* C3: each of the ADV, DSP, MST and SSM packages uses the value stored in
\* the model dataset when no value is passed to its constructor, and the
\* passed value, whatever the dataset stores, when one is passed.
C3_ConstructorsUsePassedElseStored ==
    /\ \A p \in DOMAIN pkg_args \cap ParamVars :
          pkg_args[p].used = IF pkg_args[p].passed = None
                             THEN ds[p]
                             ELSE ValueOf(pkg_args[p].passed)
    /\ "ssm" \in DOMAIN pkg_args =>
          pkg_args["ssm"].used = IF pkg_args["ssm"].passed = None
                                 THEN ssm_sources
                                 ELSE ValueOf(pkg_args["ssm"].passed)

C3_Witness ==
    /\ {"adv", "dsp", "mst", "ssm"} \subseteq DOMAIN pkg_args
    /\ pkg_args["adv"].passed # None
    /\ pkg_args["adv"].used # ds["adv"]
    /\ pkg_args["dsp"].passed = None
    /\ pkg_args["dsp"].used = ds["dsp"]
    /\ pkg_args["ssm"].passed # None
    /\ pkg_args["ssm"].used # ssm_sources

\* C4: when write_and_run is called (and from then on) every model of the
\* simulation is solved by exactly one IMS package, no IMS package solves
\* two models, the flow model is solved by the IMS package created first
\* and the transport model by ims_gwt.
C4_EachModelItsOwnIms ==
    (At("write_and_run") \/ ran) =>
        /\ \A m \in sim_models :
              Cardinality({g \in solution_groups : g[2] = m}) = 1
        /\ \A g, h \in solution_groups : g[1] = h[1] => g = h
        /\ <<sim_ims[1], "gwf">> \in solution_groups
        /\ "gwt" \in sim_models => <<"ims_gwt", "gwt">> \in solution_groups

C4_Witness ==
    /\ ran
    /\ sim_models = {"gwf", "gwt"}
    /\ sim_ims = <<"ims", "ims_gwt">>
    /\ solution_groups = {<<"ims", "gwf">>, <<"ims_gwt", "gwt">>}

\* C5: ds.transport is the transport setting (1 when True), and the
\* default transport parameters, the BUY package, the transport model, its
\* IMS package, its packages and the GWF-GWT exchange exist only when
\* ds.transport is set, and all exist at the run when it is set; with
\* transport off the simulation holds only the flow model.
C5_TransportGatesTransportSteps ==
    pc > IndexOf("to_model_ds") =>
        LET on == ds["transport"] = 1
            anyTransport ==
                \/ ParamVars \cap DOMAIN ds # {}
                \/ <<"gwf", "buy">> \in packages
                \/ "gwt" \in sim_models
                \/ "ims_gwt" \in Range(sim_ims)
                \/ \E p \in GwtPackages : <<"gwt", p>> \in packages
                \/ <<"sim", "gwfgwt">> \in packages
            allTransport ==
                /\ ParamVars \subseteq DOMAIN ds
                /\ <<"gwf", "buy">> \in packages
                /\ "gwt" \in sim_models
                /\ "ims_gwt" \in Range(sim_ims)
                /\ Built("gwt", GwtPackages)
                /\ <<"sim", "gwfgwt">> \in packages
        IN  /\ ds["transport"] = IF transport THEN 1 ELSE 0
            /\ anyTransport => on
            /\ (ran /\ on) => allTransport
            /\ (ran /\ ~on) => sim_models = {"gwf"}

C5_Witness ==
    /\ ran
    /\ ~transport
    /\ ds["transport"] = 0
    /\ sim_models = {"gwf"}
    /\ sim_ims = <<"ims">>

\* C7: write_and_run completes only after the simulation, the flow model,
\* the transport model (when ds.transport is set) and all of their
\* packages were created, and the results are read only after
\* write_and_run has completed.
C7_BuildThenRunThenRead ==
    /\ ran =>
          /\ <<"sim", "tdis">> \in packages
          /\ "ims" \in Range(sim_ims)
          /\ "gwf" \in sim_models
          /\ Built("gwf", GwfPackages)
          /\ ds["transport"] # 0 =>
                /\ <<"gwf", "buy">> \in packages
                /\ "gwt" \in sim_models
                /\ "ims_gwt" \in Range(sim_ims)
                /\ Built("gwt", GwtPackages)
                /\ <<"sim", "gwfgwt">> \in packages
    /\ outputs # {} => ran

C7_Witness ==
    /\ ran
    /\ outputs = {"get_heads_da", "get_concentration_da"}
    /\ "gwt" \in sim_models
    /\ Built("gwt", GwtPackages)

\* C8 (as claimed): the workflow starts only for a push or a pull request
\* on main and for a pull request on dev; a push to dev does not start it.
C8_PushToDevDoesNotStart ==
    ci_status \in {"running", "completed"} =>
        \/ ci_branch = "main"
        \/ ci_branch = "dev" /\ ci_event = "pull_request"

\* C9: a step of the job runs only if every earlier step succeeded: the
\* tests run only after the install and download steps succeeded, the
\* codacy reporter only after the tests passed, and after a failed step
\* every later step is skipped.
C9_StepRunsOnlyAfterSuccess ==
    \A i \in 1..Len(ci_results) :
        /\ ci_results[i] \in {"success", "failure"} =>
              \A j \in 1..(i - 1) : ci_results[j] = "success"
        /\ ci_results[i] = "failure" =>
              \A k \in (i + 1)..Len(ci_results) : ci_results[k] = "skipped"

C9_Witness ==
    /\ ci_status = "completed"
    /\ ci_results[StepIndex("download")] = "success"
    /\ ci_results[StepIndex("tests")] = "failure"
    /\ ci_results[StepIndex("codacy")] = "skipped"

\* C10: in every cell the new top is ds["ahn"] where ds["ahn"] is not NaN
\* and ds["vaklodingen"] where it is NaN, so the new top is NaN only in
\* cells where both grids are NaN.
C10_NewTopAhnElseVaklodingen ==
    top_pc = "top_set" =>
        \A c \in Cells :
            /\ ~IsNull(ahn[c]) => new_top[c] = ahn[c]
            /\ IsNull(ahn[c]) => new_top[c] = vaklodingen[c]
            /\ IsNull(new_top[c]) => (IsNull(ahn[c]) /\ IsNull(vaklodingen[c]))

C10_Witness ==
    /\ top_pc = "top_set"
    /\ \E c, d \in Cells :
          /\ IsNull(ahn[c])
          /\ ~IsNull(vaklodingen[c])
          /\ new_top[c] = vaklodingen[c]
          /\ ~IsNull(ahn[d])
          /\ ahn[d] # vaklodingen[d]
          /\ new_top[d] = ahn[d]

\* C11: surface drains and recharge are applied only to cells with
\* sea == 0 (recharge to every such cell, a drain to every such cell that
\* has a surface level), the GHB conductance of a cell is sea * area and so
\* zero where sea == 0, and no cell with sea > 0 gets a surface drain or
\* recharge.
C11_BoundaryConditionsFollowSea ==
    /\ bc_pc \in {"drn", "rch", "done"} =>
          \A c \in Cells :
              /\ ghb_cond[c] = sea[c] * Area
              /\ sea[c] = 0 => ghb_cond[c] = 0
    /\ bc_pc \in {"rch", "done"} =>
          /\ \A c \in drn_cells : sea[c] = 0
          /\ \A c \in Cells :
                (sea[c] = 0 /\ ~IsNull(ahn[c])) => c \in drn_cells
    /\ bc_pc = "done" =>
          /\ rch_cells = {c \in Cells : sea[c] = 0}
          /\ \A c \in Cells :
                sea[c] > 0 => (c \notin drn_cells /\ c \notin rch_cells)

C11_Witness ==
    /\ bc_pc = "done"
    /\ \E c, d \in Cells :
          /\ sea[c] = 0
          /\ c \in drn_cells
          /\ c \in rch_cells
          /\ ghb_cond[c] = 0
          /\ sea[d] > 0
          /\ ~IsNull(ahn[d])
          /\ d \notin drn_cells
          /\ d \notin rch_cells
          /\ ghb_cond[d] > 0

====
